---- MODULE Spec2Model ----
(***************************************************************************)
(* ThreadFate (src/src/App.jsx): the time codec, the day window, the       *)
(* memoised sort and the canvas Draw effect, as a state machine.           *)
(*                                                                         *)
(* Texts are sequences of one-character strings, so that formatting and   *)
(* parsing are computed character by character.  JavaScript numbers are   *)
(* records [k, v]: a finite integer ("num"), NaN ("nan") or an infinity    *)
(* ("inf", v = 1 or -1); the texts of the model hold no '.', 'e' or 'x',   *)
(* so Number() of a text is an integer, an infinity or NaN.                *)
(*                                                                         *)
(* Spec is the mounted component under clock ticks, resizes and clicks;    *)
(* SpecEdit is the component with nothing in storage under its editing     *)
(* handlers; SpecCodec applies toMinutes and fromMinutes, and SpecColour   *)
(* the colour functions, to inputs drawn at Init.                          *)
(***************************************************************************)
EXTENDS Integers, Sequences, FiniteSets, TLC

VARIABLES
  codec,       \* the time codec's call under test: [op, arg, timeStr, mins, str, num]
  colour,      \* the colour function's call under test: [op, hex, amt, valid, rgb, text]
  tasks,       \* useLocalStorage("threadfate.tasks"): the stored JSON value
  selectedId,  \* useState(null)
  gridStart,   \* useLocalStorage("threadfate.gridStart")
  gridEnd,     \* useLocalStorage("threadfate.gridEnd")
  settings,    \* paletteIndex, weaveDensity, warpSpacing, speed, showLabels
  layoutTick,  \* useState(0), bumped by the resize listener
  now,         \* useNow: the Date of the last tick, as [mins, wobble]
  parent,      \* the canvas parent's [clientWidth, clientHeight]
  render,      \* what the last render handed to its effects, useMemo's sorted included
  canvas,      \* the canvas: its size, its 2d context state and what was painted
  crashed,     \* an exception escaped render or an effect
  onKey,       \* what the keydown listener closes over: the selectedId, minDay and
               \* daySpan of the render that last ran the effect with deps [selectedId]
  uuids,       \* how many ids uuid() has issued
  edits,       \* how many edits the handlers have made
  event        \* the last thing that happened

vars == <<codec, colour, tasks, selectedId, gridStart, gridEnd, settings,
          layoutTick, now, parent, render, canvas, crashed, onKey, uuids, edits, event>>

appVars == <<tasks, selectedId, gridStart, gridEnd, settings,
             layoutTick, now, parent, render, canvas, crashed, onKey, uuids, edits, event>>

-----------------------------------------------------------------------------
(* JavaScript numbers *)

Num(n) == [k |-> "num", v |-> n]

NaN == [k |-> "nan", v |-> 0]

PosInf == [k |-> "inf", v |-> 1]

NegInf == [k |-> "inf", v |-> -1]

IsNaN(x) == x.k = "nan"

IsNum(x) == x.k = "num"

\* a < b in JavaScript: false when either side is NaN
JsLt(a, b) ==
  /\ ~IsNaN(a)
  /\ ~IsNaN(b)
  /\ IF IsNum(a) /\ IsNum(b) THEN a.v < b.v
     ELSE IF IsNum(a) THEN b = PosInf
     ELSE IF IsNum(b) THEN a = NegInf
     ELSE a = NegInf /\ b = PosInf

JsGt(a, b) == JsLt(b, a)

\* a <= b in JavaScript: false when either side is NaN
JsLe(a, b) == ~IsNaN(a) /\ ~IsNaN(b) /\ ~JsLt(b, a)

JsGe(a, b) == JsLe(b, a)

\* Math.min / Math.max of two numbers: NaN when either is NaN
MathMin(a, b) == IF IsNaN(a) \/ IsNaN(b) THEN NaN ELSE IF JsLt(b, a) THEN b ELSE a

MathMax(a, b) == IF IsNaN(a) \/ IsNaN(b) THEN NaN ELSE IF JsLt(a, b) THEN b ELSE a

\* Math.floor: the finite numbers of the model are integers
MathFloor(x) == x

\* a % m for a finite m > 0: the sign of the dividend; NaN for NaN and the infinities
JsMod(a, m) ==
  IF ~IsNum(a) THEN NaN
  ELSE IF a.v >= 0 THEN Num(a.v % m) ELSE Num(0 - ((0 - a.v) % m))

JsAdd(a, b) ==
  IF IsNaN(a) \/ IsNaN(b) THEN NaN
  ELSE IF IsNum(a) /\ IsNum(b) THEN Num(a.v + b.v)
  ELSE IF IsNum(a) THEN b
  ELSE IF IsNum(b) THEN a
  ELSE IF a = b THEN a ELSE NaN

JsNeg(a) == IF IsNaN(a) THEN NaN ELSE [k |-> a.k, v |-> 0 - a.v]

JsSub(a, b) == JsAdd(a, JsNeg(b))

JsMul(a, b) ==
  IF IsNaN(a) \/ IsNaN(b) THEN NaN
  ELSE IF IsNum(a) /\ IsNum(b) THEN Num(a.v * b.v)
  ELSE IF a.v = 0 \/ b.v = 0 THEN NaN
  ELSE IF (a.v > 0) = (b.v > 0) THEN PosInf ELSE NegInf

\* clamp(v, lo, hi); v is computed once, as the call's argument is
clamp(v, lo, hi) == CHOOSE r \in {MathMax(lo, MathMin(hi, x)) : x \in {v}} : TRUE

-----------------------------------------------------------------------------
(* JavaScript values read from storage or from an input: a tag and a text *)

Str(cs) == [k |-> "string", v |-> cs]

Undefined == [k |-> "undefined", v |-> <<>>]

JsNull == [k |-> "null", v |-> <<>>]

\* a number stored where a text is expected, kept as its decimal text
JsNumber(cs) == [k |-> "number", v |-> cs]

IsString(x) == x.k = "string"

\* !x
Falsy(x) ==
  \/ x.k \in {"undefined", "null"}
  \/ x.k = "string" /\ x.v = <<>>
  \/ x.k = "number" /\ x.v = <<"0">>

-----------------------------------------------------------------------------
(* Texts *)

Digits == <<"0", "1", "2", "3", "4", "5", "6", "7", "8", "9">>

IsDigit(c) == \E i \in 1..10 : Digits[i] = c

DigitVal(c) == (CHOOSE i \in 1..10 : Digits[i] = c) - 1

RECURSIVE DigitsValue(_)
DigitsValue(s) ==
  IF s = <<>> THEN 0
  ELSE 10 * DigitsValue(SubSeq(s, 1, Len(s) - 1)) + DigitVal(s[Len(s)])

AllDigits(s) == Len(s) > 0 /\ \A i \in 1..Len(s) : IsDigit(s[i])

RECURSIVE TrimLeft(_)
TrimLeft(s) == IF s # <<>> /\ s[1] = " " THEN TrimLeft(Tail(s)) ELSE s

RECURSIVE TrimRight(_)
TrimRight(s) ==
  IF s # <<>> /\ s[Len(s)] = " " THEN TrimRight(SubSeq(s, 1, Len(s) - 1)) ELSE s

\* String.prototype.trim
StrTrim(s) == TrimRight(TrimLeft(s))

InfinityText == <<"I", "n", "f", "i", "n", "i", "t", "y">>

\* Number(text): blank is 0, a signed decimal integer is its value, a signed
\* "Infinity" is an infinity, anything else is NaN
StringToNumber(s) ==
  LET t == StrTrim(s) IN
  IF t = <<>> THEN Num(0)
  ELSE LET signed == t[1] \in {"-", "+"}
           body == IF signed THEN Tail(t) ELSE t
       IN IF AllDigits(body)
            THEN Num((IF t[1] = "-" THEN -1 ELSE 1) * DigitsValue(body))
          ELSE IF body = InfinityText
            THEN (IF t[1] = "-" THEN NegInf ELSE PosInf)
          ELSE NaN

\* text.split(sep) for a one-character separator
RECURSIVE Split(_, _)
Split(s, sep) ==
  IF \A i \in 1..Len(s) : s[i] # sep THEN <<s>>
  ELSE LET i == CHOOSE j \in 1..Len(s) :
                  s[j] = sep /\ \A l \in 1..(j - 1) : s[l] # sep
       IN <<SubSeq(s, 1, i - 1)>> \o Split(SubSeq(s, i + 1, Len(s)), sep)

\* String(n) for a finite integer n >= 0
RECURSIVE NatToString(_)
NatToString(n) ==
  IF n < 10 THEN <<Digits[n + 1]>>
  ELSE NatToString(n \div 10) \o <<Digits[(n % 10) + 1]>>

\* String(x) for a number
NumberToString(x) ==
  IF IsNaN(x) THEN <<"N", "a", "N">>
  ELSE IF x = PosInf THEN InfinityText
  ELSE IF x = NegInf THEN <<"-">> \o InfinityText
  ELSE IF x.v < 0 THEN <<"-">> \o NatToString(0 - x.v)
  ELSE NatToString(x.v)

\* text.padStart(n, c)
RECURSIVE PadStart(_, _, _)
PadStart(s, n, c) == IF Len(s) >= n THEN s ELSE PadStart(<<c>> \o s, n, c)

-----------------------------------------------------------------------------
(* The time codec *)

DayMinutes == 1440

toMinutesMod12(timeStr) ==
  IF Falsy(timeStr) \/ ~IsString(timeStr) THEN Num(0)
  ELSE LET texts == Split(timeStr.v, ":")
           parts == [i \in 1..Len(texts) |-> StringToNumber(texts[i])]
       IN IF Len(parts) < 2 \/ IsNaN(parts[1]) \/ IsNaN(parts[2]) THEN Num(0)
          ELSE JsAdd(JsMul(JsMod(MathFloor(parts[1]), 12), Num(60)),
                     clamp(MathFloor(parts[2]), Num(0), Num(59)))

toMinutes(timeStr) ==
  IF Falsy(timeStr) \/ ~IsString(timeStr) THEN Num(0)
  ELSE LET texts == Split(timeStr.v, ":")
           parts == [i \in 1..Len(texts) |-> StringToNumber(texts[i])]
       IN IF Len(parts) < 2 \/ IsNaN(parts[1]) \/ IsNaN(parts[2]) THEN Num(0)
          ELSE JsAdd(JsMul(JsMod(MathFloor(parts[1]), 24), Num(60)),
                     clamp(MathFloor(parts[2]), Num(0), Num(59)))

pad2(n) == PadStart(NumberToString(n), 2, "0")

fromMinutesSingleModulo(mins) ==
  LET safe == MathFloor(JsMod(mins, DayMinutes))
      h == IF IsNaN(safe) THEN NaN ELSE Num(safe.v \div 60)
      m == JsMod(safe, 60)
  IN pad2(h) \o <<":">> \o pad2(m)

\* mins is a finite integer or NaN
fromMinutes(mins) ==
  LET safe == MathFloor(JsMod(JsAdd(JsMod(mins, DayMinutes), Num(DayMinutes)), DayMinutes))
      h == IF IsNaN(safe) THEN NaN ELSE Num(safe.v \div 60)
      m == JsMod(safe, 60)
  IN pad2(h) \o <<":">> \o pad2(m)

-----------------------------------------------------------------------------
(* The texts of the model *)

T0600 == <<"0", "6", ":", "0", "0">>

T0630 == <<"0", "6", ":", "3", "0">>

T2200 == <<"2", "2", ":", "0", "0">>

T0900 == <<"0", "9", ":", "0", "0">>

T1000 == <<"1", "0", ":", "0", "0">>

T1100 == <<"1", "1", ":", "0", "0">>

T1230 == <<"1", "2", ":", "3", "0">>

T1315 == <<"1", "3", ":", "1", "5">>

T1800 == <<"1", "8", ":", "0", "0">>

T1930 == <<"1", "9", ":", "3", "0">>

T1801 == <<"1", "8", ":", "0", "1">>

TInfinity00 == <<"I", "n", "f", "i", "n", "i", "t", "y", ":", "0", "0">>

TNine == <<"9">>

TNineColon == <<"9", ":">>

TAbc == <<"a", "b", "c">>

DeepWork == <<"D", "e", "e", "p", " ", "W", "o", "r", "k">>

Workout == <<"W", "o", "r", "k", "o", "u", "t">>

StudyDSA == <<"S", "t", "u", "d", "y", " ", "D", "S", "A">>

NewThread == <<"N", "e", "w", " ", "T", "h", "r", "e", "a", "d">>

CFFD166 == <<"#", "F", "F", "D", "1", "6", "6">>

C4857FF == <<"#", "4", "8", "5", "7", "F", "F">>

C00BFA6 == <<"#", "0", "0", "B", "F", "A", "6">>

CF43F5E == <<"#", "F", "4", "3", "F", "5", "E">>

CFF6B6B == <<"#", "F", "F", "6", "B", "6", "B">>

CRed == <<"r", "e", "d">>

-----------------------------------------------------------------------------
(* The codec's calls: the inputs are drawn at Init, the actions apply the functions *)

MaxTimeStrLen == 4

TimeStrAlphabet == {"0", "1", "9", ":", "a", "-", " "}

ShortTexts == UNION {[1..n -> TimeStrAlphabet] : n \in 0..MaxTimeStrLen}

NonTexts == {Undefined, JsNull, JsNumber(<<"0">>), JsNumber(<<"5", "4", "0">>)}

TimeStrInputs ==
  {Str(t) : t \in ShortTexts \cup {T0900, T1315, TAbc, TNine, TNineColon, TInfinity00,
                                   <<"1", "0", ":">> \o InfinityText,
                                   <<"1", "0", ":", "-">> \o InfinityText}}
    \cup NonTexts

MinutesInputs == (0 - DayMinutes)..(2 * DayMinutes - 1)

CodecIdle ==
  [op |-> "idle", arg |-> "none", timeStr |-> Undefined, mins |-> Num(0),
   str |-> <<>>, num |-> Num(0)]

CodecInit ==
  \/ \E v \in TimeStrInputs : codec = [CodecIdle EXCEPT !.arg = "timeStr", !.timeStr = v]
  \/ \E n \in MinutesInputs : codec = [CodecIdle EXCEPT !.arg = "mins", !.mins = Num(n)]

CallToMinutes ==
  /\ codec.op = "idle"
  /\ codec.arg = "timeStr"
  /\ codec' = [codec EXCEPT !.op = "toMinutes", !.num = toMinutes(codec.timeStr)]

CallFromMinutes ==
  /\ codec.op = "idle"
  /\ codec.arg = "mins"
  /\ codec' = [codec EXCEPT !.op = "fromMinutes", !.str = fromMinutes(codec.mins)]

\* toMinutes(fromMinutes(mins))
ParseFormatted ==
  /\ codec.op = "fromMinutes"
  /\ codec' = [codec EXCEPT !.op = "parseFormatted",
                            !.timeStr = Str(codec.str),
                            !.num = toMinutes(Str(codec.str))]

-----------------------------------------------------------------------------
(* The stored task collection *)

NullId == "null"

\* a task record as JSON.parse gives it: each field a JavaScript value
Task(id, title, start, end, color) ==
  [k |-> "object", id |-> id, title |-> title, start |-> start, end |-> end, color |-> color]

\* a null element of the stored array
NullItem ==
  [k |-> "null", id |-> NullId, title |-> Undefined, start |-> Undefined,
   end |-> Undefined, color |-> Undefined]

\* one character of a stored string, as [...tasks] spreads it: every field read is undefined
CharItem ==
  [k |-> "string", id |-> NullId, title |-> Undefined, start |-> Undefined,
   end |-> Undefined, color |-> Undefined]

\* the stored value: an array of items, or something else that parses as JSON
TasksArray(items) == [k |-> "array", v |-> items]

TasksNull == [k |-> "null", v |-> <<>>]

TasksNumber == [k |-> "number", v |-> <<>>]

TasksString == [k |-> "string", v |-> <<CharItem>>]

-----------------------------------------------------------------------------
(* Colours *)

IsHexDigit(c) ==
  c \in {"0", "1", "2", "3", "4", "5", "6", "7", "8", "9",
         "a", "b", "c", "d", "e", "f", "A", "B", "C", "D", "E", "F"}

\* /^#([0-9a-fA-F]{3}|[0-9a-fA-F]{6})$/.test(hex.trim())
isValidHex(hex) ==
  /\ IsString(hex)
  /\ LET h == StrTrim(hex.v) IN
       /\ Len(h) \in {4, 7}
       /\ h[1] = "#"
       /\ \A i \in 2..Len(h) : IsHexDigit(h[i])

\* hashColor on the titles of the model; the palette entries are those the code's
\* 32-bit hash selects (String(s || "") makes a missing title the empty text)
hashColor(s) ==
  LET str == IF Falsy(s) THEN <<>> ELSE s.v IN
  IF str = DeepWork THEN CFFD166
  ELSE IF str = Workout THEN C4857FF
  ELSE IF str = StudyDSA THEN C00BFA6
  ELSE IF str = NewThread THEN CFF6B6B
  ELSE CF43F5E

HexDigits == <<"0", "1", "2", "3", "4", "5", "6", "7", "8", "9", "a", "b", "c", "d", "e", "f">>

UpperHexDigits == <<"0", "1", "2", "3", "4", "5", "6", "7", "8", "9", "A", "B", "C", "D", "E", "F">>

HexVal(c) == (CHOOSE i \in 1..16 : HexDigits[i] = c \/ UpperHexDigits[i] = c) - 1

\* the longest run of hex digits a text starts with
RECURSIVE HexPrefix(_)
HexPrefix(t) ==
  IF t # <<>> /\ IsHexDigit(t[1]) THEN <<t[1]>> \o HexPrefix(Tail(t)) ELSE <<>>

RECURSIVE HexValue(_)
HexValue(t) ==
  IF t = <<>> THEN 0 ELSE 16 * HexValue(SubSeq(t, 1, Len(t) - 1)) + HexVal(t[Len(t)])

\* parseInt(text, 16): leading blanks, a sign, an optional 0x, then the hex digits the
\* rest starts with; NaN when there are none.  The number is kept as its sign and its
\* digits: [k |-> "num", negative, digits]
parseInt16(text) ==
  LET t == TrimLeft(text)
      signed == t # <<>> /\ t[1] \in {"-", "+"}
      u == IF signed THEN Tail(t) ELSE t
      prefixed == Len(u) >= 2 /\ u[1] = "0" /\ u[2] \in {"x", "X"}
      digits == HexPrefix(IF prefixed THEN SubSeq(u, 3, Len(u)) ELSE u)
  IN IF digits = <<>> THEN [k |-> "nan", negative |-> FALSE, digits |-> <<>>]
     ELSE [k |-> "num", negative |-> signed /\ t[1] = "-", digits |-> digits]

\* the low 24 bits of ToInt32 of a number of up to 13 hex digits (exact as a double):
\* those of its last six digits, in two's complement when it is negative
Low24(parsed) ==
  LET n == Len(parsed.digits)
      low == HexValue(SubSeq(parsed.digits, IF n > 6 THEN n - 5 ELSE 1, n))
  IN IF parsed.negative THEN (16777216 - low) % 16777216 ELSE low

\* text.replace('#', ''): the first '#' is removed
RECURSIVE RemoveFirstHash(_)
RemoveFirstHash(t) ==
  IF t = <<>> THEN <<>>
  ELSE IF t[1] = "#" THEN Tail(t)
  ELSE <<t[1]>> \o RemoveFirstHash(Tail(t))

\* String(hex || "")
HexText(hex) == IF Falsy(hex) THEN <<>> ELSE hex.v

White == [r |-> 255, g |-> 255, b |-> 255]

\* hexToRgb; nothing in its try block throws for the values of the model.
\* (bigint >> 16) & 255, (bigint >> 8) & 255 and bigint & 255 are the three low bytes
hexToRgb(hex) ==
  LET h == StrTrim(RemoveFirstHash(HexText(hex)))
      full == IF Len(h) = 3 THEN <<h[1], h[1], h[2], h[2], h[3], h[3]>> ELSE h
      parsed == parseInt16(full)
  IN IF IsNaN(parsed) THEN White
     ELSE LET bigint == Low24(parsed)
          IN [r |-> bigint \div 65536, g |-> (bigint \div 256) % 256, b |-> bigint % 256]

\* rgbToHex of three integers
rgbToHex(r, g, b) ==
  LET toHex(v) == LET c == IF v < 0 THEN 0 ELSE IF v > 255 THEN 255 ELSE v
                  IN <<HexDigits[(c \div 16) + 1], HexDigits[(c % 16) + 1]>>
  IN <<"#">> \o toHex(r) \o toHex(g) \o toHex(b)

\* shade(hex, amt) for an integer amt: Math.round(v + (amt / 100) * 255) is v plus
\* amt * 255 / 100 rounded to the nearest integer
shade(hex, amt) ==
  LET rgb == hexToRgb(hex)
      f(v) == v + ((510 * amt + 100) \div 200)
  IN rgbToHex(f(rgb.r), f(rgb.g), f(rgb.b))

\* contrastColor: yiq >= 140 on the sum before the division by 1000
contrastColor(hex) ==
  LET rgb == hexToRgb(hex)
  IN IF rgb.r * 299 + rgb.g * 587 + rgb.b * 114 >= 140000
       THEN <<"#", "0", "b", "1", "0", "2", "0">>
       ELSE <<"#", "f", "8", "f", "a", "f", "c">>

-----------------------------------------------------------------------------
(* The colour functions' calls: the input is drawn at Init, the actions apply them *)

MaxHexLen == 7

HexAlphabet == {"#", "8", "g"}

HexTexts == UNION {[1..n -> HexAlphabet] : n \in 0..MaxHexLen}

HexInputs ==
  {Str(t) : t \in HexTexts \cup {CFFD166, C4857FF, CRed,
                                 <<"f", "f", "f">>, <<"#", "f", "f", "f">>, <<"#", "f", "f">>,
                                 <<"#", "f", "f", "f", "f", "f", "f">>,
                                 <<"4", "8", "5", "7", "F", "F">>,
                                 <<" ", "#", "f", "f", "f", " ">>,
                                 <<"-", "8", "8", "8">>, <<"0", "x", "8">>}}
    \cup NonTexts

\* the amounts shade is called with
ShadeAmounts == {20, -20, -35, -40}

ColourIdle ==
  [op |-> "idle", hex |-> Undefined, amt |-> 0, valid |-> FALSE, rgb |-> White, text |-> <<>>]

ColourInit == \E v \in HexInputs : colour = [ColourIdle EXCEPT !.hex = v]

CallIsValidHex ==
  /\ colour.op = "idle"
  /\ colour' = [colour EXCEPT !.op = "isValidHex", !.valid = isValidHex(colour.hex)]

CallHexToRgb ==
  /\ colour.op = "idle"
  /\ colour' = [colour EXCEPT !.op = "hexToRgb", !.rgb = hexToRgb(colour.hex)]

CallShade ==
  /\ colour.op = "idle"
  /\ \E amt \in ShadeAmounts :
       colour' = [colour EXCEPT !.op = "shade", !.amt = amt, !.text = shade(colour.hex, amt)]

CallContrastColor ==
  /\ colour.op = "idle"
  /\ colour' = [colour EXCEPT !.op = "contrastColor", !.text = contrastColor(colour.hex)]

-----------------------------------------------------------------------------
(* The day window.  The component reads gridStart, gridEnd and now from its state at  *)
(* each render; here they are the arguments gs, ge and date.                          *)

minDay(gs) == clamp(toMinutes(gs), Num(0), Num(DayMinutes - 1))

maxDay(ge) == clamp(toMinutes(ge), Num(1), Num(DayMinutes))

rawSpan(gs, ge) ==
  IF JsGt(maxDay(ge), minDay(gs)) THEN JsSub(maxDay(ge), minDay(gs)) ELSE Num(60)

daySpanUnfloored(gs, ge) == rawSpan(gs, ge)

daySpan(gs, ge) == MathMax(Num(60), rawSpan(gs, ge))

\* toMinutes(`${pad2(now.getHours())}:${pad2(now.getMinutes())}`)
nowMin(date) ==
  toMinutes(Str(pad2(Num(date.mins \div 60)) \o <<":">> \o pad2(Num(date.mins % 60))))

-----------------------------------------------------------------------------
(* The memoised sort *)

\* the comparator (a, b) => toMinutes(a.start) - toMinutes(b.start)
compareStart(a, b) == JsSub(toMinutes(a.start), toMinutes(b.start))

IndexOrders(n) == {f \in [1..n -> 1..n] : \A i, j \in 1..n : f[i] = f[j] => i = j}

\* f keeps every adjacent pair in comparator order, equal pairs in their original order
InSortOrder(items, f) ==
  \A i \in 1..(Len(items) - 1) :
    \E c \in {compareStart(items[f[i]], items[f[i + 1]])} :
      \/ JsLt(c, Num(0))
      \/ ~JsGt(c, Num(0)) /\ f[i] < f[i + 1]

Unsorted(items) == {items}

\* [...tasks].sort(compare).  The sort is stable.  A start that parses to NaN makes the
\* comparator return NaN, which sort reads as 0: that item is "equal" to every other, the
\* comparator is no longer consistent and the order is implementation-defined.  The
\* outcomes are the orders an insertion or merge sort can leave: every adjacent pair in
\* comparator order, equal neighbours in their original order.  With finite starts that
\* is the one stable ascending order.
SortOutcomes(items) ==
  {[i \in 1..Len(items) |-> items[f[i]]] :
     f \in {g \in IndexOrders(Len(items)) : InSortOrder(items, g)}}

\* render throws: [...tasks] of a value that is not iterable, or the comparator and the
\* task list reading .start and .id of a null element
RenderThrows(stored) ==
  \/ stored.k \notin {"array", "string"}
  \/ \E i \in 1..Len(stored.v) : stored.v[i].k = "null"

\* useMemo(() => [...tasks].sort(...), [tasks]): the values sorted can take
Sorted(stored) == IF RenderThrows(stored) THEN {<<>>} ELSE SortOutcomes(stored.v)

\* what one render hands to its effects: the sorted tasks, the settings, the constants
\* of the day window and the minute of the day, with what Draw reads from the DOM and
\* the clock when it runs (the parent's box and the shuttle's wobble)
Render(srt, set, gs, ge, date, box) ==
  [sorted |-> srt, settings |-> set,
   minDay |-> minDay(gs), maxDay |-> maxDay(ge), daySpan |-> daySpan(gs, ge),
   nowMin |-> nowMin(date), wobble |-> date.wobble, parent |-> box]

-----------------------------------------------------------------------------
(* The Draw effect of the render r.  Alphas are in hundredths.  Horizontal positions  *)
(* of bands and shuttles are kept multiplied by daySpan, which keeps xOf in the       *)
(* integers.                                                                          *)

rowHeight == 24

gaps == 10

IntMax(a, b) == IF a < b THEN b ELSE a

\* Math.max(320, Math.floor(parent.clientWidth || 640))
W(r) == IntMax(320, IF r.parent.clientWidth = 0 THEN 640 ELSE r.parent.clientWidth)

\* clamp(Math.floor(parent.clientHeight || 420), 320, 1200)
H(r) ==
  clamp(Num(IF r.parent.clientHeight = 0 THEN 420 ELSE r.parent.clientHeight),
        Num(320), Num(1200)).v

\* window.devicePixelRatio || 1
pixelRatio(r) == IF r.parent.devicePixelRatio = 0 THEN 1 ELSE r.parent.devicePixelRatio

\* Math.ceil(daySpan / 60)
hours(r) == (r.daySpan.v + 59) \div 60

\* the hour lines of the loop i = 0..hours: x and, with labels on, the label text
gridLines(r) ==
  [n \in 1..(hours(r) + 1) |->
     [x |-> (((n - 1) * 60 * (W(r) - 64)) \div r.daySpan.v) + 48,
      label |-> IF r.settings.showLabels
                  THEN <<fromMinutes(JsMod(JsAdd(r.minDay, Num((n - 1) * 60)), DayMinutes))>>
                  ELSE <<>>]]

\* xOf(mins) * daySpan
xOf(r, mins) == JsAdd(Num(48 * r.daySpan.v), JsMul(JsSub(mins, r.minDay), Num(W(r) - 64)))

\* clamp(x, 48, W - 16) on a position multiplied by daySpan
clampX(r, x) == clamp(x, Num(48 * r.daySpan.v), Num((W(r) - 16) * r.daySpan.v))

\* Math.max(2, Number(weaveDensity) || 6)
weaveStep(r) == IntMax(2, IF r.settings.weaveDensity = 0 THEN 6 ELSE r.settings.weaveDensity)

\* the iterations of for (y = 32; y < H - 32; y += weaveStep)
weaveLines(r) == ((H(r) - 64 - 1) \div weaveStep(r)) + 1

usableHeight(r) == IntMax(120, H(r) - 160)

maxRows(r) == IntMax(1, usableHeight(r) \div (rowHeight + gaps))

taskStart(r, task) == clamp(toMinutes(task.start), r.minDay, JsAdd(r.minDay, r.daySpan))

taskEnd(r, task) == clamp(toMinutes(task.end), r.minDay, JsAdd(r.minDay, r.daySpan))

skippedStrict(s, e) == JsLt(e, s)

\* if (e <= s) return
skipped(s, e) == JsLe(e, s)

rowOf(r, idx) == idx % maxRows(r)

shuttleDueStrict(r, s, e) == JsGt(r.nowMin, s) /\ JsLt(r.nowMin, e)

\* if (nowMin >= s && nowMin <= e)
shuttleDue(r, s, e) == JsGe(r.nowMin, s) /\ JsLe(r.nowMin, e)

safeColorOf(task) == IF isValidHex(task.color) THEN task.color.v ELSE hashColor(task.title)

\* the shape drawShuttle paints; speed is Number(speed) || 1, t is the wobble of
\* performance.now() at the call
drawShuttle(t, x, y, h, speed, color) ==
  [x |-> x, y |-> y, h |-> h, w |-> 10 + 6 * speed, wobble |-> t,
   color |-> IF isValidHex(Str(color)) THEN color ELSE <<"#", "f", "f", "f", "f", "f", "f">>]

\* one painted task: the band as filled, and the context state it leaves
paintTask(r, task, idx, s, e, x1, x2, st) ==
  LET row == rowOf(r, idx)
      y == 64 + row * (rowHeight + gaps)
      due == shuttleDue(r, s, e)
      color == safeColorOf(task)
      band ==
        [id |-> task.id, idx |-> idx, row |-> row, y |-> y,
         x1 |-> x1.v, x2 |-> x2.v,
         width |-> IntMax(4 * r.daySpan.v, x2.v - x1.v),
         alpha |-> st.globalAlpha,
         color |-> color,
         hatchAlpha |-> 25,
         label |-> IF r.settings.showLabels
                     THEN <<IF Falsy(task.title) THEN <<"U", "n", "t", "i", "t", "l", "e", "d">>
                            ELSE task.title.v>>
                     ELSE <<>>,
         shuttle |-> IF due
                       THEN <<drawShuttle(r.wobble, clampX(r, xOf(r, r.nowMin)).v,
                                          y - 6, rowHeight + 12,
                                          IF r.settings.speed = 0 THEN 1 ELSE r.settings.speed,
                                          color)>>
                       ELSE <<>>]
  IN [bands |-> Append(st.bands, band),
      globalAlpha |-> 100,
      lineWidth |-> IF due THEN 2 ELSE st.lineWidth,
      font |-> IF r.settings.showLabels THEN "bold 12px" ELSE st.font,
      threw |-> FALSE]

\* the body of sorted.forEach((task, idx) => ...) for one idx; st is what was painted so
\* far and the context state.  Reading .start of a null element throws;
\* createLinearGradient throws a TypeError for a coordinate that is not finite.
forEachBody(r, idx, st) ==
  LET task == r.sorted[idx + 1] IN
  IF task.k = "null" THEN [st EXCEPT !.threw = TRUE]
  ELSE CHOOSE next \in
         {IF skipped(s, e) THEN st
          ELSE CHOOSE painted \in
                 {IF IsNaN(x1) \/ IsNaN(x2) THEN [st EXCEPT !.threw = TRUE]
                  ELSE paintTask(r, task, idx, s, e, x1, x2, st) :
                    x1 \in {clampX(r, xOf(r, s))}, x2 \in {clampX(r, xOf(r, e))}} : TRUE :
            s \in {taskStart(r, task)}, e \in {taskEnd(r, task)}} : TRUE

\* sorted.forEach over the first n items, starting from the context state st0
RECURSIVE forEachTask(_, _, _)
forEachTask(r, n, st0) ==
  IF n = 0 THEN st0
  ELSE CHOOSE next \in {IF st.threw THEN st ELSE forEachBody(r, n - 1, st) :
                          st \in {forEachTask(r, n - 1, st0)}} : TRUE

\* the 2d context of a canvas that was just created or just resized
DefaultContext == [scale |-> 1, globalAlpha |-> 100, lineWidth |-> 1, font |-> "10px sans-serif"]

\* the context state when forEach starts: the grid leaves globalAlpha 1, the weave
\* loop sets 0.06 for its lines and does not set it back
beforeTasks(r) ==
  [bands |-> <<>>, globalAlpha |-> IF weaveLines(r) > 0 THEN 6 ELSE 100, lineWidth |-> 1,
   font |-> "12px", threw |-> FALSE]

\* what one run of the effect paints after the background, and the context state it leaves
Frame(r) ==
  CHOOSE frame \in
    {[W |-> W(r), H |-> H(r), daySpan |-> r.daySpan.v,
      grid |-> gridLines(r), weave |-> weaveLines(r), bands |-> st.bands,
      border |-> ~st.threw, threw |-> st.threw,
      ctx |-> [scale |-> pixelRatio(r), globalAlpha |-> st.globalAlpha,
               lineWidth |-> IF st.threw THEN st.lineWidth ELSE 2, font |-> st.font]] :
       st \in {forEachTask(r, Len(r.sorted), beforeTasks(r))}} : TRUE

CanvasSizedKeepsContext(ctx) == ctx

\* canvas.width = ..., canvas.height = ...: setting the size resets the context state
CanvasSized(ctx) == DefaultContext

\* the canvas element before the first Draw
FreshCanvas ==
  [width |-> 300, height |-> 150, ctx |-> DefaultContext, background |-> <<>>,
   daySpan |-> 60, grid |-> <<>>, weave |-> 0, bands |-> <<>>, border |-> FALSE]

\* the Draw effect on the canvas prev, painting frame: the background is filled with the
\* context as sizing the canvas left it, everything after sets what it uses
Draw(prev, frame) ==
  [width |-> frame.W * frame.ctx.scale, height |-> frame.H * frame.ctx.scale,
   ctx |-> frame.ctx,
   background |-> <<[alpha |-> CanvasSized(prev.ctx).globalAlpha]>>,
   daySpan |-> frame.daySpan,
   grid |-> frame.grid, weave |-> frame.weave, bands |-> frame.bands,
   border |-> frame.border]

-----------------------------------------------------------------------------
(* What storage, the clock and the window can hold *)

MaxTasks == 2

MaxLayoutTick == 1

TaskIds == <<"t1", "t2", "t3", "t4", "t5", "t6">>

\* a task with a title, a start, an end and a colour that are texts
TextTask(id, title, start, end, color) == Task(id, Str(title), Str(start), Str(end), Str(color))

\* the records a stored array can hold at one position: the three default tasks (one
\* with a colour that is no hex colour), a task that ends before it starts, a task
\* whose start "9:" lacks its minutes, a task whose start parses to NaN, and null
StoredItems(id) ==
  {Task(id, Str(DeepWork), Str(T0900), Str(T1100), Str(CFFD166)),
   Task(id, Str(Workout), Str(T1230), Str(T1315), Str(CRed)),
   Task(id, Str(StudyDSA), Str(T1800), Str(T1930), Str(C00BFA6)),
   Task(id, Str(<<>>), Str(T1000), Str(T0900), Undefined),
   Task(id, Undefined, Str(TNineColon), Str(T1000), Undefined),
   Task(id, Str(Workout), Str(TInfinity00), Str(T1100), Str(C4857FF)),
   NullItem}

RECURSIVE ArraysOfLen(_)
ArraysOfLen(n) ==
  IF n = 0 THEN {<<>>}
  ELSE {Append(a, it) : a \in ArraysOfLen(n - 1), it \in StoredItems(TaskIds[n])}

\* a day of six tasks stored out of order, one of them inverted and two starting
\* together: more tasks than the canvas has rows when its parent is not laid out
FullDay ==
  <<TextTask("t1", StudyDSA, T1800, T1930, C00BFA6),
    TextTask("t2", Workout, T1230, T1315, C4857FF),
    TextTask("t3", DeepWork, T1000, T0900, CFFD166),
    TextTask("t4", DeepWork, T0900, T1100, CFFD166),
    TextTask("t5", Workout, T0900, T1000, CRed),
    TextTask("t6", StudyDSA, T1100, T1230, C00BFA6)>>

\* the stored value: every array of up to MaxTasks of the items above, the full day,
\* and values that are no arrays
StoredTasks ==
  {TasksArray(a) : a \in UNION {ArraysOfLen(n) : n \in 0..MaxTasks}}
    \cup {TasksArray(FullDay), TasksNull, TasksNumber, TasksString}

\* the day windows: 06:00-22:00, an end before the start, a span under an hour,
\* and texts that are no times
StoredWindows ==
  {<<Str(T0600), Str(T2200)>>, <<Str(T1000), Str(T0900)>>,
   <<Str(T0600), Str(T0630)>>, <<Str(TInfinity00), Str(TAbc)>>}

DefaultSettings ==
  [paletteIndex |-> 0, weaveDensity |-> 6, warpSpacing |-> 8, speed |-> 1, showLabels |-> TRUE]

StoredSettings == {DefaultSettings, [DefaultSettings EXCEPT !.showLabels = FALSE]}

\* the wall clock (minute of the day) and the shuttle's wobble at that instant,
\* Math.sin(t * (1 + speed)) * 3 rounded: 09:00, 12:45 twice and 13:15
Nows ==
  {[mins |-> 540, wobble |-> 0], [mins |-> 765, wobble |-> 0],
   [mins |-> 765, wobble |-> 3], [mins |-> 795, wobble |-> -3]}

\* the parent's client size and the device pixel ratio; 0 x 0 is a parent not laid out
ParentSizes ==
  {[clientWidth |-> 0, clientHeight |-> 0, devicePixelRatio |-> 1],
   [clientWidth |-> 300, clientHeight |-> 200, devicePixelRatio |-> 2],
   [clientWidth |-> 1000, clientHeight |-> 1300, devicePixelRatio |-> 1]}

-----------------------------------------------------------------------------
(* The application *)

\* the keydown effect of the render r (deps [selectedId]): onKey closes over that
\* render's selectedId and, through addTask, over its minDay and daySpan
Listener(sel, r) == [selectedId |-> sel, minDay |-> r.minDay, daySpan |-> r.daySpan]

\* the first render and its effects: render throws, or Draw paints the fresh canvas
Mount ==
  /\ selectedId = NullId
  /\ layoutTick = 0
  /\ \E srt \in Sorted(tasks) :
       \E r \in {Render(srt, settings, gridStart, gridEnd, now, parent)} :
         \E frame \in {Frame(r)} :
           /\ render = r
           /\ canvas = IF RenderThrows(tasks) THEN FreshCanvas ELSE Draw(FreshCanvas, frame)
           /\ crashed = (RenderThrows(tasks) \/ frame.threw)
           /\ onKey = Listener(NullId, r)
  /\ uuids = 0
  /\ edits = 0
  /\ event = [type |-> "mount", repeat |-> FALSE]

\* the state after the first render, storage holding any of the above
AppInit ==
  /\ tasks \in StoredTasks
  /\ \E win \in StoredWindows : gridStart = win[1] /\ gridEnd = win[2]
  /\ settings \in StoredSettings
  /\ now \in Nows
  /\ parent \in ParentSizes
  /\ Mount

\* the state with nothing in storage: the default tasks, window and settings
AppDefault ==
  /\ tasks = TasksArray(<<TextTask("t1", DeepWork, T0900, T1100, CFFD166),
                          TextTask("t2", Workout, T1230, T1315, C4857FF),
                          TextTask("t3", StudyDSA, T1800, T1930, C00BFA6)>>)
  /\ gridStart = Str(T0600)
  /\ gridEnd = Str(T2200)
  /\ settings = DefaultSettings
  /\ now = [mins |-> 540, wobble |-> 0]
  /\ parent = [clientWidth |-> 0, clientHeight |-> 0, devicePixelRatio |-> 1]
  /\ Mount

\* a render with the date and the parent's box as given, and the Draw effect after it
Rerender(date, box) ==
  \E r \in {Render(render.sorted, settings, gridStart, gridEnd, date, box)} :
    \E frame \in {Frame(r)} :
      /\ render' = r
      /\ canvas' = Draw(canvas, frame)
      /\ crashed' = frame.threw

ClockTickWritesColour ==
  /\ ~crashed
  /\ \E date \in Nows :
       /\ now' = date
       /\ event' = [type |-> "tick", repeat |-> (date = now)]
       /\ Rerender(date, parent)
  /\ tasks' = [tasks EXCEPT !.v = [i \in 1..Len(tasks.v) |->
                 [tasks.v[i] EXCEPT !.color = Str(safeColorOf(tasks.v[i]))]]]
  /\ UNCHANGED <<codec, colour, selectedId, gridStart, gridEnd, settings, layoutTick, parent,
                 onKey, uuids, edits>>

\* useNow: the interval's callback sets a new Date; the render that follows runs Draw
ClockTick ==
  /\ ~crashed
  /\ \E date \in Nows :
       /\ now' = date
       /\ event' = [type |-> "tick", repeat |-> (date = now)]
       /\ Rerender(date, parent)
  /\ UNCHANGED <<codec, colour, tasks, selectedId, gridStart, gridEnd, settings, layoutTick, parent,
                 onKey, uuids, edits>>

\* onResize: the listener bumps layoutTick; the render that follows runs Draw, which
\* reads the parent's box as it is then
WindowResize ==
  /\ ~crashed
  /\ layoutTick < MaxLayoutTick
  /\ layoutTick' = layoutTick + 1
  /\ \E box \in ParentSizes :
       /\ parent' = box
       /\ event' = [type |-> "resize", repeat |-> (box = parent)]
       /\ Rerender(now, box)
  /\ UNCHANGED <<codec, colour, tasks, selectedId, gridStart, gridEnd, settings, now,
                 onKey, uuids, edits>>

\* onClick of a row of the task list: no dependency of Draw changes; a selectedId
\* that differs makes the keydown effect subscribe the listener of this render
SelectTask ==
  /\ ~crashed
  /\ \E i \in 1..Len(render.sorted) :
       /\ render.sorted[i].k = "object"
       /\ selectedId' = render.sorted[i].id
       /\ onKey' = IF render.sorted[i].id = selectedId THEN onKey
                   ELSE Listener(render.sorted[i].id, render)
  /\ event' = [type |-> "select", repeat |-> FALSE]
  /\ UNCHANGED <<codec, colour, tasks, gridStart, gridEnd, settings, layoutTick,
                 now, parent, render, canvas, crashed, uuids, edits>>

-----------------------------------------------------------------------------
(* The editing handlers *)

MaxEdits == 3

NewIds == <<"n1", "n2", "n3", "n4", "n5", "n6">>

\* uuid(): an id no task has had, the n-th one issued
uuid(n) == NewIds[n + 1]

\* the task addTask appends, as the render with minDay md and daySpan span defines it
addTask(id, md, span) ==
  TextTask(id, NewThread,
           fromMinutes(MathMax(md, toMinutes(Str(T0900)))),
           fromMinutes(MathMin(JsAdd(md, span), toMinutes(Str(T1000)))),
           hashColor(Str(NewThread)))

\* t.map((x) => (x.id === id ? { ...x, ...patch } : x)), patch setting one field
updateTask(stored, id, field, value) ==
  TasksArray([i \in 1..Len(stored.v) |->
                IF stored.v[i].id = id THEN [stored.v[i] EXCEPT ![field] = Str(value)]
                ELSE stored.v[i]])

\* t.filter((x) => x.id !== id)
removeTask(stored, id) == TasksArray(SelectSeq(stored.v, LAMBDA x : x.id # id))

\* what the inputs of a task's row can send: a title, a start, an end and a colour
Patches ==
  {<<"title", Workout>>, <<"start", T1800>>, <<"end", T1000>>, <<"color", C00BFA6>>}

\* what the Day Start and Day End inputs can send
DayStarts == {T0600, T1000}

DayEnds == {T2200, T1801}

\* the render after a handler's state updates and the effects whose deps changed:
\* useMemo sorts again when tasks changed, Draw runs (tasks or the window changed), the
\* keydown effect subscribes this render's listener when selectedId changed
Commit(stored, sel, gs, ge) ==
  /\ tasks' = stored
  /\ selectedId' = sel
  /\ gridStart' = gs
  /\ gridEnd' = ge
  /\ edits' = edits + 1
  /\ \E srt \in (IF stored = tasks THEN {render.sorted} ELSE Sorted(stored)) :
       \E r \in {Render(srt, settings, gs, ge, now, parent)} :
         \E frame \in {Frame(r)} :
           /\ render' = r
           /\ canvas' = Draw(canvas, frame)
           /\ crashed' = frame.threw
           /\ onKey' = IF sel = selectedId THEN onKey ELSE Listener(sel, r)
  /\ UNCHANGED <<codec, colour, settings, layoutTick, now, parent>>

\* onClick={addTask} of "+ New Thread" and "+ Add": the addTask of the current render
AddTask ==
  /\ ~crashed
  /\ edits < MaxEdits
  /\ uuids' = uuids + 1
  /\ event' = [type |-> "addTask", repeat |-> FALSE]
  /\ \E id \in {uuid(uuids)} :
       Commit(TasksArray(Append(tasks.v, addTask(id, render.minDay, render.daySpan))),
              id, gridStart, gridEnd)

\* onKey, key "n": the addTask the listener closes over
KeyN ==
  /\ ~crashed
  /\ edits < MaxEdits
  /\ uuids' = uuids + 1
  /\ event' = [type |-> "keyN", repeat |-> FALSE]
  /\ \E id \in {uuid(uuids)} :
       Commit(TasksArray(Append(tasks.v, addTask(id, onKey.minDay, onKey.daySpan))),
              id, gridStart, gridEnd)

KeyDeleteKeepsSelection ==
  /\ ~crashed
  /\ event' = [type |-> "keyDelete", repeat |-> FALSE]
  /\ UNCHANGED uuids
  /\ \/ /\ onKey.selectedId # NullId
        /\ edits < MaxEdits
        /\ Commit(TasksArray(SelectSeq(tasks.v, LAMBDA x : x.id # onKey.selectedId)),
                  selectedId, gridStart, gridEnd)
     \/ /\ onKey.selectedId = NullId
        /\ UNCHANGED <<codec, colour, tasks, selectedId, gridStart, gridEnd, settings,
                       layoutTick, now, parent, render, canvas, crashed, onKey, edits>>

\* onKey, key "delete" or "backspace": with a selectedId, the task is filtered out and
\* the selection cleared; without one the handler does nothing
KeyDelete ==
  /\ ~crashed
  /\ event' = [type |-> "keyDelete", repeat |-> FALSE]
  /\ UNCHANGED uuids
  /\ \/ /\ onKey.selectedId # NullId
        /\ edits < MaxEdits
        /\ Commit(TasksArray(SelectSeq(tasks.v, LAMBDA x : x.id # onKey.selectedId)),
                  NullId, gridStart, gridEnd)
     \/ /\ onKey.selectedId = NullId
        /\ UNCHANGED <<codec, colour, tasks, selectedId, gridStart, gridEnd, settings,
                       layoutTick, now, parent, render, canvas, crashed, onKey, edits>>

\* onClick of a row's Delete button: removeTask(t.id); the click then bubbles to the
\* row's own onClick, which selects t.id
DeleteButton ==
  /\ ~crashed
  /\ edits < MaxEdits
  /\ event' = [type |-> "removeTask", repeat |-> FALSE]
  /\ UNCHANGED uuids
  /\ \E i \in 1..Len(render.sorted) :
       Commit(removeTask(tasks, render.sorted[i].id), render.sorted[i].id,
              gridStart, gridEnd)

\* onChange of a row's title, start, end or colour input
UpdateTask ==
  /\ ~crashed
  /\ edits < MaxEdits
  /\ event' = [type |-> "updateTask", repeat |-> FALSE]
  /\ UNCHANGED uuids
  /\ \E i \in 1..Len(render.sorted), patch \in Patches :
       /\ render.sorted[i][patch[1]] # Str(patch[2])
       /\ Commit(updateTask(tasks, render.sorted[i].id, patch[1], patch[2]),
                 selectedId, gridStart, gridEnd)

\* onChange of the Day Start input
SetGridStart ==
  /\ ~crashed
  /\ edits < MaxEdits
  /\ event' = [type |-> "setGridStart", repeat |-> FALSE]
  /\ UNCHANGED uuids
  /\ \E v \in DayStarts :
       /\ Str(v) # gridStart
       /\ Commit(tasks, selectedId, Str(v), gridEnd)

\* onChange of the Day End input
SetGridEnd ==
  /\ ~crashed
  /\ edits < MaxEdits
  /\ event' = [type |-> "setGridEnd", repeat |-> FALSE]
  /\ UNCHANGED uuids
  /\ \E v \in DayEnds :
       /\ Str(v) # gridEnd
       /\ Commit(tasks, selectedId, gridStart, Str(v))

Init == codec = CodecIdle /\ colour = ColourIdle /\ AppInit

Next == ClockTick \/ WindowResize \/ SelectTask

Spec == Init /\ [][Next]_vars

InitCodec == CodecInit /\ colour = ColourIdle /\ AppDefault

NextCodec ==
  (CallToMinutes \/ CallFromMinutes \/ ParseFormatted) /\ UNCHANGED colour /\ UNCHANGED appVars

SpecCodec == InitCodec /\ [][NextCodec]_vars

InitColour == codec = CodecIdle /\ ColourInit /\ AppDefault

NextColour ==
  (CallIsValidHex \/ CallHexToRgb \/ CallShade \/ CallContrastColor)
    /\ UNCHANGED codec /\ UNCHANGED appVars

SpecColour == InitColour /\ [][NextColour]_vars

InitEdit == codec = CodecIdle /\ colour = ColourIdle /\ AppDefault

NextEdit ==
  \/ AddTask
  \/ KeyN
  \/ KeyDelete
  \/ DeleteButton
  \/ UpdateTask
  \/ SetGridStart
  \/ SetGridEnd
  \/ SelectTask

SpecEdit == InitEdit /\ [][NextEdit]_vars

-----------------------------------------------------------------------------
(* The time codec: C1, C10, C11, C12 (under SpecCodec) *)

\* C1: for every minute of the day n in 0..1439, toMinutes(fromMinutes(n)) = n.
RoundTripIsIdentity ==
  (codec.op = "parseFormatted" /\ codec.mins.v \in 0..(DayMinutes - 1))
    => codec.num = codec.mins

\* C1, its case: 23:59 was formatted and parsed back
RoundTripOfLastMinute ==
  /\ codec.op = "parseFormatted"
  /\ codec.mins = Num(DayMinutes - 1)
  /\ codec.str = <<"2", "3", ":", "5", "9">>
  /\ codec.num = Num(DayMinutes - 1)

\* a text that is a time: at least two parts, the first two runs of decimal digits
WellFormedTime(v) ==
  /\ IsString(v)
  /\ LET texts == Split(v.v, ":")
     IN Len(texts) >= 2 /\ AllDigits(texts[1]) /\ AllDigits(texts[2])

\* C10: toMinutes returns 0 for every input that is no text, is empty, has a part that
\* is no number, or lacks its hour or its minute part.
MalformedParsesToZero ==
  (codec.op = "toMinutes" /\ ~WellFormedTime(codec.timeStr)) => codec.num = Num(0)

\* a decimal integer of any sign
IsIntegerText(t) ==
  \/ AllDigits(t)
  \/ Len(t) > 1 /\ t[1] \in {"-", "+"} /\ AllDigits(Tail(t))

\* a text "H:M" whose two parts are integers
IntegerTime(v) ==
  /\ IsString(v)
  /\ LET texts == Split(v.v, ":")
     IN Len(texts) = 2 /\ IsIntegerText(texts[1]) /\ IsIntegerText(texts[2])

\* C11: for a text "H:M" of two integers of any sign, toMinutes returns
\* (H mod 24) * 60 + clamp(M, 0, 59) with the hour in 0..23, a minute in [0, 1440).
HourReducedIntoDay ==
  (codec.op = "toMinutes" /\ IntegerTime(codec.timeStr)) =>
    \E texts \in {Split(codec.timeStr.v, ":")} :
      \E hh \in {StringToNumber(texts[1]).v}, mm \in {StringToNumber(texts[2]).v} :
        /\ codec.num = Num((hh % 24) * 60 + (IF mm < 0 THEN 0 ELSE IF mm > 59 THEN 59 ELSE mm))
        /\ codec.num.v \in 0..(DayMinutes - 1)

\* the zero-padded "HH:MM" of a minute of the day
ClockText(n) ==
  <<Digits[((n \div 60) \div 10) + 1], Digits[((n \div 60) % 10) + 1], ":",
    Digits[((n % 60) \div 10) + 1], Digits[((n % 60) % 10) + 1]>>

\* C12: for every integer n, fromMinutes(n) is the zero-padded "HH:MM" of n reduced into
\* [0, 1440), so it is the same for n and n + 1440 * k.
FormatNormalisesIntoDay ==
  codec.op = "fromMinutes" => codec.str = ClockText(codec.mins.v % DayMinutes)

\* C12, its case: fromMinutes(-30) gave "23:30"
MinusThirtyIsHalfPastEleven ==
  /\ codec.op = "fromMinutes"
  /\ codec.mins = Num(-30)
  /\ codec.str = <<"2", "3", ":", "3", "0">>

-----------------------------------------------------------------------------
(* The colour functions: C13, C14 (under SpecColour) *)

\* a text that is an optional '#' followed by exactly 3 or exactly 6 hex digits
OptionalHashHex(v) ==
  /\ IsString(v)
  /\ LET body == IF v.v # <<>> /\ v.v[1] = "#" THEN Tail(v.v) ELSE v.v
     IN Len(body) \in {3, 6} /\ \A i \in 1..Len(body) : IsHexDigit(body[i])

\* C13: isValidHex is true exactly for an optional '#' followed by 3 or 6 hex digits.
ValidIffOptionalHashHex ==
  colour.op = "isValidHex" => (colour.valid <=> OptionalHashHex(colour.hex))

\* C14: for an input that is no 3- or 6-digit hex colour, hexToRgb gives (255, 255, 255),
\* and shade and contrastColor give what they give on "#ffffff".
MalformedHexIsWhite ==
  ~OptionalHashHex(colour.hex) =>
    /\ colour.op = "hexToRgb" => colour.rgb = White
    /\ colour.op = "shade" =>
         colour.text = shade(Str(<<"#", "f", "f", "f", "f", "f", "f">>), colour.amt)
    /\ colour.op = "contrastColor" =>
         colour.text = contrastColor(Str(<<"#", "f", "f", "f", "f", "f", "f">>))

-----------------------------------------------------------------------------
(* The Draw effect: C2 .. C9 (under Spec) *)

\* the task a painted band belongs to
TaskOfBand(band) == render.sorted[band.idx + 1]

\* the position of the item with this id in the stored collection
StoredPosition(id) == CHOOSE i \in 1..Len(tasks.v) : tasks.v[i].id = id

\* the window is 06:00-22:00
WindowIsSixToTen == render.minDay = Num(360) /\ render.maxDay = Num(1320)

\* C2: a task whose end, clamped to the day window, is less than or equal to its clamped
\* start has no band on the canvas, and so no hatch, no label and no shuttle.
SkippedTaskHasNoBand ==
  \A i \in 1..Len(render.sorted) :
    \E s \in {taskStart(render, render.sorted[i])}, e \in {taskEnd(render, render.sorted[i])} :
      JsLe(e, s) => \A j \in 1..Len(canvas.bands) : canvas.bands[j].idx # i - 1

\* C2, its case: in the window 06:00-22:00 a task 10:00-09:00 has no band next to a
\* task that has one
InvertedTaskNotPainted ==
  /\ WindowIsSixToTen
  /\ Len(canvas.bands) > 0
  /\ \E i \in 1..Len(render.sorted) :
       /\ render.sorted[i].start = Str(T1000)
       /\ render.sorted[i].end = Str(T0900)
       /\ \A j \in 1..Len(canvas.bands) : canvas.bands[j].idx # i - 1

\* C3: the i-th painted band, counting from 0, is in row i mod maxRows: skipped tasks
\* take no row.
RowsCountPaintedBandsOnly ==
  \A j \in 1..Len(canvas.bands) : canvas.bands[j].row = (j - 1) % maxRows(render)

\* C4: daySpan is at least 60: maxDay - minDay when that is at least 60, and 60 otherwise,
\* and it is the span the canvas was drawn with.
DaySpanAtLeastHour ==
  \E diff \in {JsSub(render.maxDay, render.minDay)} :
    /\ IsNum(render.daySpan)
    /\ render.daySpan.v >= 60
    /\ render.daySpan = (IF IsNum(diff) /\ diff.v >= 60 THEN diff ELSE Num(60))
    /\ (Len(canvas.background) > 0 => canvas.daySpan = render.daySpan.v)

\* C4, its case: a window whose end is before its start, and one of half an hour, were
\* drawn with a span of 60
ShortWindowDrawnWithHour ==
  /\ Len(canvas.background) > 0
  /\ canvas.daySpan = 60
  /\ \/ render.minDay = Num(600) /\ render.maxDay = Num(540)
     \/ render.minDay = Num(360) /\ render.maxDay = Num(390) /\ Len(canvas.bands) > 0

\* C5: a painted band has a shuttle exactly when the minute of the day is within the
\* task's clamped range, start <= now <= end; a task that is not painted has none.
ShuttleIffNowInRange ==
  \A j \in 1..Len(canvas.bands) :
    \E s \in {taskStart(render, TaskOfBand(canvas.bands[j]))},
       e \in {taskEnd(render, TaskOfBand(canvas.bands[j]))} :
      (Len(canvas.bands[j].shuttle) > 0) <=> (JsLe(s, render.nowMin) /\ JsLe(render.nowMin, e))

\* C5, its case: at 12:45 the task 12:30-13:15 has a shuttle and another band has none
ShuttleAtQuarterToOne ==
  /\ render.nowMin = Num(765)
  /\ \E j, k \in 1..Len(canvas.bands) :
       /\ TaskOfBand(canvas.bands[j]).start = Str(T1230)
       /\ TaskOfBand(canvas.bands[j]).end = Str(T1315)
       /\ Len(canvas.bands[j].shuttle) = 1
       /\ Len(canvas.bands[k].shuttle) = 0

\* C6: bands are painted in ascending order of parsed start, tasks of equal start in
\* their order in the collection, and x1 never decreases in paint order.
BandsInStartOrder ==
  \A j, k \in 1..Len(canvas.bands) :
    j < k =>
      \E a \in {toMinutes(TaskOfBand(canvas.bands[j]).start)},
         b \in {toMinutes(TaskOfBand(canvas.bands[k]).start)} :
        /\ JsLe(a, b)
        /\ a = b => StoredPosition(canvas.bands[j].id) < StoredPosition(canvas.bands[k].id)
        /\ canvas.bands[j].x1 <= canvas.bands[k].x1

\* C6, its case: the full day, stored out of order, is painted as 09:00, 09:00, 11:00,
\* 12:30, 18:00, the two at 09:00 in their stored order
FullDayPaintedInOrder ==
  /\ tasks = TasksArray(FullDay)
  /\ WindowIsSixToTen
  /\ [j \in 1..Len(canvas.bands) |-> canvas.bands[j].id] = <<"t4", "t5", "t6", "t2", "t1">>
  /\ canvas.bands[1].x1 = canvas.bands[2].x1
  /\ canvas.bands[2].x1 < canvas.bands[3].x1

\* C7: a clock tick or a resize, and the Draw it triggers, leave the task collection,
\* the day window, the settings and the selection as they were.
TicksAndResizesKeepStore ==
  [][event'.type \in {"tick", "resize"}
       => UNCHANGED <<tasks, gridStart, gridEnd, settings, selectedId>>]_vars

\* C7, its case: after a tick, with a task selected, the collection is stored in another
\* order than it is painted and a band has a colour its task does not store
TickDrewDerivedColour ==
  /\ event.type = "tick"
  /\ selectedId # NullId
  /\ tasks.v # render.sorted
  /\ \E j \in 1..Len(canvas.bands) :
       canvas.bands[j].color # TaskOfBand(canvas.bands[j]).color.v

\* C8: a Draw with the tasks, settings, window, time and size of the Draw before it
\* leaves the canvas and its context state as they were.
RepeatedDrawChangesNothing ==
  [][(event'.type \in {"tick", "resize"} /\ event'.repeat) => canvas' = canvas]_vars

\* C8, its case: a tick at the time of the tick before it, with a shuttle on the canvas
RepeatedTickWithShuttle ==
  /\ event.type = "tick"
  /\ event.repeat
  /\ ~crashed
  /\ \E j \in 1..Len(canvas.bands) : Len(canvas.bands[j].shuttle) = 1

\* C9: neither startup nor a Draw raises an error, whatever storage holds.
RenderingNeverThrows == ~crashed

\* C18: in every Draw, every painted band is filled with the context's globalAlpha at
\* 1, whatever its place in paint order and whatever was painted before it.
BandsFilledOpaque == \A j \in 1..Len(canvas.bands) : canvas.bands[j].alpha = 100

-----------------------------------------------------------------------------
(* The editing handlers: C15, C16, C17, C19 (under SpecEdit) *)

\* the positions of items whose task has the id
PositionsOf(items, id) == {i \in 1..Len(items) : items[i].id = id}

\* after is before without the items at the positions gone, the others at their
\* places in the same order
WithoutPositions(before, gone, after) ==
  /\ Len(after) = Len(before) - Cardinality(gone)
  /\ \A i \in (1..Len(before)) \ gone :
       after[i - Cardinality({j \in gone : j < i})] = before[i]

\* C15: Delete or Backspace with a task selected removes exactly the task with the
\* selected id, the others keeping their values and order, and clears the selection;
\* with no task selected it leaves the collection and the selection as they were.
DeleteKeyRemovesSelected ==
  [][event'.type = "keyDelete" =>
       IF selectedId # NullId
         THEN /\ WithoutPositions(tasks.v, PositionsOf(tasks.v, selectedId), tasks'.v)
              /\ Cardinality(PositionsOf(tasks.v, selectedId)) <= 1
              /\ selectedId' = NullId
         ELSE UNCHANGED <<tasks, selectedId>>]_vars

\* C15, its case: the one edit made was the Delete key removing the selected task of
\* the three default ones
DeleteKeyRemovedOne ==
  /\ event.type = "keyDelete"
  /\ edits = 1
  /\ Len(tasks.v) = 2
  /\ selectedId = NullId

\* C16: in every reachable state, pressing N appends the task the Add button would
\* append in that state, built from the current day window, and selects it.
KeyNAddsWhatAddWould ==
  event.type = "keyN" =>
    /\ Len(tasks.v) > 0
    /\ \E t \in {tasks.v[Len(tasks.v)]} :
         /\ t = addTask(t.id, minDay(gridStart), daySpan(gridStart, gridEnd))
         /\ selectedId = t.id

\* C17: for every day window, the task addTask appends has a parsed end strictly after
\* its parsed start and is not skipped by Draw: the Draw that follows paints its band.
NewTaskIsPainted ==
  event.type = "addTask" =>
    /\ Len(tasks.v) > 0
    /\ \E t \in {tasks.v[Len(tasks.v)]} :
         /\ JsGt(toMinutes(t.end), toMinutes(t.start))
         /\ \E j \in 1..Len(canvas.bands) : canvas.bands[j].id = t.id

\* C19: after any sequence of adds, selections, edits, removals by the Delete button
\* and Delete or Backspace keys, selectedId is null or the id of a task of the collection.
SelectionIsNullOrStored ==
  \/ selectedId = NullId
  \/ \E i \in 1..Len(tasks.v) : tasks.v[i].id = selectedId

-----------------------------------------------------------------------------
(* The horizontal drawing area: C20 (under SpecEdit) *)

\* the surface width W of the last Draw
SurfaceWidth == canvas.width \div canvas.ctx.scale

GridInsideMargins ==
  \A n \in 1..Len(canvas.grid) :
    canvas.grid[n].x >= 48 /\ canvas.grid[n].x <= SurfaceWidth - 16

\* positions of bands are multiplied by daySpan
BandsInsideMargins ==
  \A j \in 1..Len(canvas.bands) :
    /\ canvas.bands[j].x1 >= 48 * canvas.daySpan
    /\ canvas.bands[j].x1 + canvas.bands[j].width <= (SurfaceWidth - 16) * canvas.daySpan

\* C20: in every Draw, each hour grid line's x and each band's rectangle
\* [x1, x1 + painted width] lie within [48, W - 16].
LayoutInsideMargins == GridInsideMargins /\ BandsInsideMargins

====
